---------------------------- MODULE Spec2Model ----------------------------
(***************************************************************************)
(* A model of django_generator: the scaffold writer, the settings patcher, *)
(* the routing generator, the asset materializer and the orchestrator      *)
(* create_project.                                                         *)
(*                                                                         *)
(* A text is a sequence of tokens.  A token stands for a fixed run of      *)
(* characters (an identifier, a quoted literal, a bracket, a newline, a    *)
(* run of blanks), so that splitting into lines, joining, substring tests  *)
(* and the regular expressions of the code are computed on the token       *)
(* sequence the way the code computes them on the characters.              *)
(* A path is the sequence of its components below the destination          *)
(* directory; the destination itself is the empty path.                    *)
(***************************************************************************)
EXTENDS Integers, Sequences, FiniteSets, TLC

VARIABLES
    fs,     \* the files that exist: path -> content (a text)
    dirs,   \* the directories that exist (a set of paths)
    apps,   \* the module list the caller passed
    opts,   \* the caller's flags: create_venv, create_templates, init_git_flag, dry_run
    pc,     \* where create_project stands
    idx,    \* create_project: index of the next module of the startapp loop
    steps,  \* the operations the current run has performed, in order
    out,    \* the messages the current run has sent to the progress callback
    hist,   \* one record per call made: its arguments and the files after it
    env     \* the installation: whether the generator ships templates/ and static/

vars == <<fs, dirs, apps, opts, pc, idx, steps, out, hist, env>>

----------------------------------------------------------------------------
(* Bounds of the model. *)

MaxApps == 2
MaxCalls == 2
MaxWrites == 3
MaxRuns == 2
MaxSanitize == 2
MaxCommands == 1
MaxUrlCalls == 2
MaxClicks == 2

(* The names a caller may pass as modules, and the project name. *)
AppNames == {"blog", "shop"}
ProjectName == "site"

----------------------------------------------------------------------------
(* Tokens. *)

NL == "\n"
SP == " "
IND == "    "

SQ(s) == "'" \o s \o "'"
DQ(s) == "\"" \o s \o "\""

IsSpace(tok) == tok \in {SP, IND, NL}

(* The quoted literals that occur in the texts of the model: a token that  *)
(* starts with a quote character and ends at the next one.                *)
QuotedTokens ==
    {SQ(a) : a \in AppNames} \cup {DQ(a) : a \in AppNames}
      \cup {"'static/'", "\"/assets/\"", "'/static/'", "'templates'", "'static'",
            "'assets'", "'DIRS'", "\"DIRS\"", "'APP_DIRS'", "'django.contrib.admin'"}

----------------------------------------------------------------------------
(* Generic sequence helpers. *)

Last(s) == s[Len(s)]

Contains(text, tok) == \E i \in 1..Len(text) : text[i] = tok

\* the number of positions of text holding tok
Count(text, tok) == Cardinality({i \in 1..Len(text) : text[i] = tok})

\* does the token sequence pat occur in text at position i
OccursAt(text, pat, i) ==
    /\ i + Len(pat) - 1 <= Len(text)
    /\ \A k \in 1..Len(pat) : text[i + k - 1] = pat[k]

ContainsSeq(text, pat) == \E i \in 1..Len(text) : OccursAt(text, pat, i)

\* the first index >= i of text that holds no white space (Len(text)+1 if none)
RECURSIVE SkipSpace(_, _)
SkipSpace(text, i) ==
    IF i > Len(text) \/ ~IsSpace(text[i]) THEN i ELSE SkipSpace(text, i + 1)

\* the first index >= i of text that holds tok (0 if none)
RECURSIVE IndexFrom(_, _, _)
IndexFrom(text, tok, i) ==
    IF i > Len(text) THEN 0
    ELSE IF text[i] = tok THEN i ELSE IndexFrom(text, tok, i + 1)

RECURSIVE Flatten(_)
Flatten(ss) == IF ss = <<>> THEN <<>> ELSE Head(ss) \o Flatten(Tail(ss))

----------------------------------------------------------------------------
(* str.splitlines, "\n".join, str.strip, str.startswith, str.replace. *)

RECURSIVE splitlines(_)
splitlines(text) ==
    IF text = <<>> THEN <<>>
    ELSE LET i == IndexFrom(text, NL, 1) IN
         IF i = 0 THEN <<text>>
         ELSE <<SubSeq(text, 1, i - 1)>> \o splitlines(SubSeq(text, i + 1, Len(text)))

RECURSIVE join(_)
join(lines) ==
    IF lines = <<>> THEN <<>>
    ELSE IF Len(lines) = 1 THEN lines[1]
    ELSE lines[1] \o <<NL>> \o join(Tail(lines))

RECURSIVE lstrip(_)
lstrip(line) ==
    IF line # <<>> /\ IsSpace(Head(line)) THEN lstrip(Tail(line)) ELSE line

RECURSIVE rstrip(_)
rstrip(line) ==
    IF line # <<>> /\ IsSpace(Last(line)) THEN rstrip(SubSeq(line, 1, Len(line) - 1))
    ELSE line

strip(line) == rstrip(lstrip(line))

\* the line starts with the characters of tok: its first token is tok
startswith(line, tok) == line # <<>> /\ Head(line) = tok

\* text.replace(old, new): every non-overlapping occurrence, left to right
RECURSIVE ReplaceFrom(_, _, _, _)
ReplaceFrom(text, old, new, i) ==
    IF i > Len(text) THEN <<>>
    ELSE IF OccursAt(text, old, i) THEN new \o ReplaceFrom(text, old, new, i + Len(old))
    ELSE <<text[i]>> \o ReplaceFrom(text, old, new, i + 1)

replace(text, old, new) == ReplaceFrom(text, old, new, 1)

----------------------------------------------------------------------------
(* patch_settings: the line scan that registers the modules. *)

SettingsPath == <<ProjectName, "settings.py">>

\* f"    '{app}',"
RegistrationLine(app) == <<IND, SQ(app), ",">>

\* a variant that forgets the "already present" test
RECURSIVE NewAppLinesUnchecked(_, _)
NewAppLinesUnchecked(as, text) ==
    IF as = <<>> THEN <<>>
    ELSE <<RegistrationLine(Head(as))>> \o NewAppLinesUnchecked(Tail(as), text)

\* for app in apps: if f"'{app}'" not in text and f'"{app}"' not in text: append
RECURSIVE NewAppLines(_, _)
NewAppLines(as, text) ==
    IF as = <<>> THEN <<>>
    ELSE (IF ~Contains(text, SQ(Head(as))) /\ ~Contains(text, DQ(Head(as)))
          THEN <<RegistrationLine(Head(as))>> ELSE <<>>)
         \o NewAppLines(Tail(as), text)

\* a variant that never leaves "inside block" mode
RECURSIVE ScanLinesNoLeave(_, _, _, _)
ScanLinesNoLeave(lines, in_apps, as, text) ==
    IF lines = <<>> THEN <<>>
    ELSE LET line == Head(lines)
             stripped == strip(line)
         IN  IF startswith(stripped, "INSTALLED_APPS")
             THEN <<line>> \o ScanLinesNoLeave(Tail(lines), TRUE, as, text)
             ELSE IF in_apps /\ startswith(stripped, "]")
             THEN NewAppLines(as, text) \o <<line>>
                    \o ScanLinesNoLeave(Tail(lines), TRUE, as, text)
             ELSE <<line>> \o ScanLinesNoLeave(Tail(lines), in_apps, as, text)

\* the loop "for line in lines", with in_apps its flag; the result is new_lines
RECURSIVE ScanLines(_, _, _, _)
ScanLines(lines, in_apps, as, text) ==
    IF lines = <<>> THEN <<>>
    ELSE LET line == Head(lines)
             stripped == strip(line)
         IN  IF startswith(stripped, "INSTALLED_APPS")
             THEN <<line>> \o ScanLines(Tail(lines), TRUE, as, text)
             ELSE IF in_apps /\ startswith(stripped, "]")
             THEN NewAppLines(as, text) \o <<line>>
                    \o ScanLines(Tail(lines), FALSE, as, text)
             ELSE <<line>> \o ScanLines(Tail(lines), in_apps, as, text)

----------------------------------------------------------------------------
(* patch_settings: the regular expressions. *)

\* "'DIRS': [BASE_DIR / 'templates']"
DirsEntry == <<"'DIRS'", ":", SP, "[", "BASE_DIR", SP, "/", SP, "'templates'", "]">>

\* "'APP_DIRS': True,"
AppDirsEntry == <<"'APP_DIRS'", ":", SP, "True", ",">>

\* "            'DIRS': [BASE_DIR / 'templates'],\n            'APP_DIRS': True,"
AppDirsReplacement ==
    <<IND, IND, IND>> \o DirsEntry \o <<",", NL, IND, IND, IND>> \o AppDirsEntry

\* "STATIC_URL = '/static/'"
StaticUrlDecl == <<"STATIC_URL", SP, "=", SP, "'/static/'">>

\* "STATICFILES_DIRS = [BASE_DIR / 'static']"
StaticDirsDecl ==
    <<"STATICFILES_DIRS", SP, "=", SP, "[", "BASE_DIR", SP, "/", SP, "'static'", "]">>

\* 'DIRS'\s*:\s*\[  matched at i: the index of its "[", or 0
DirsOpenAt(text, i) ==
    IF i > Len(text) \/ text[i] # "'DIRS'" THEN 0
    ELSE LET c == SkipSpace(text, i + 1) IN
         IF c > Len(text) \/ text[c] # ":" THEN 0
         ELSE LET b == SkipSpace(text, c + 1) IN
              IF b > Len(text) \/ text[b] # "[" THEN 0 ELSE b

\* re.search(r"'DIRS'\s*:\s*\[", text)
SearchDirsOpen(text) == \E i \in 1..Len(text) : DirsOpenAt(text, i) # 0

\* 'DIRS'\s*:\s*\[[^\]]*\]  matched at i: the index of its "]", or 0
DirsListAt(text, i) ==
    LET b == DirsOpenAt(text, i) IN
    IF b = 0 THEN 0 ELSE IndexFrom(text, "]", b + 1)

\* re.sub(r"'DIRS'\s*:\s*\[[^\]]*\]", "'DIRS': [BASE_DIR / 'templates']", text)
RECURSIVE SubDirsFrom(_, _)
SubDirsFrom(text, i) ==
    IF i > Len(text) THEN <<>>
    ELSE LET e == DirsListAt(text, i) IN
         IF e # 0 THEN DirsEntry \o SubDirsFrom(text, e + 1)
         ELSE <<text[i]>> \o SubDirsFrom(text, i + 1)

SubDirs(text) == SubDirsFrom(text, 1)

\* STATIC_URL\s*=  matched at i: the index of its "=", or 0
StaticUrlAssignAt(text, i) ==
    IF i > Len(text) \/ text[i] # "STATIC_URL" THEN 0
    ELSE LET e == SkipSpace(text, i + 1) IN
         IF e > Len(text) \/ text[e] # "=" THEN 0 ELSE e

\* re.search(r"STATIC_URL\s*=", text)
SearchStaticUrl(text) == \E i \in 1..Len(text) : StaticUrlAssignAt(text, i) # 0

\* STATIC_URL\s*=\s*['\"].*?['\"]  matched at i: the index of the quoted literal, or 0
StaticUrlLiteralAt(text, i) ==
    LET e == StaticUrlAssignAt(text, i) IN
    IF e = 0 THEN 0
    ELSE LET q == SkipSpace(text, e + 1) IN
         IF q > Len(text) \/ text[q] \notin QuotedTokens THEN 0 ELSE q

\* re.sub(r"STATIC_URL\s*=\s*['\"].*?['\"]", "STATIC_URL = '/static/'", text)
RECURSIVE SubStaticUrlFrom(_, _)
SubStaticUrlFrom(text, i) ==
    IF i > Len(text) THEN <<>>
    ELSE LET q == StaticUrlLiteralAt(text, i) IN
         IF q # 0 THEN StaticUrlDecl \o SubStaticUrlFrom(text, q + 1)
         ELSE <<text[i]>> \o SubStaticUrlFrom(text, i + 1)

SubStaticUrl(text) == SubStaticUrlFrom(text, 1)

----------------------------------------------------------------------------
(* patch_settings: the whole text transformation, in the order of the code. *)

PatchLines(text, as) == join(ScanLines(splitlines(text), FALSE, as, text))

\* a variant that forgets the "elif 'TEMPLATES' in new_text" branch
PatchTemplateDirsNoInject(t) == IF SearchDirsOpen(t) THEN SubDirs(t) ELSE t

PatchTemplateDirs(t) ==
    IF SearchDirsOpen(t) THEN SubDirs(t)
    ELSE IF Contains(t, "TEMPLATES") THEN replace(t, AppDirsEntry, AppDirsReplacement)
    ELSE t

PatchStaticUrl(t) ==
    SubStaticUrl(IF ~SearchStaticUrl(t) THEN t \o <<NL>> \o StaticUrlDecl \o <<NL>> ELSE t)

PatchStaticDirs(t) ==
    IF ~Contains(t, "STATICFILES_DIRS") THEN t \o <<NL>> \o StaticDirsDecl \o <<NL>> ELSE t

PatchText(text, as) ==
    PatchStaticDirs(PatchStaticUrl(PatchTemplateDirs(PatchLines(text, as))))

----------------------------------------------------------------------------
(* The file system: pathlib's exists, write_text, mkdir(parents=True), with_suffix. *)

NoFiles == [p \in {} |-> <<>>]

Exists(f, p) == p \in DOMAIN f

\* a variant that leaves nothing but the written file in the directory tree
WriteTextAlone(f, p, c) == [q \in {p} |-> c]

\* path.write_text(content)
WriteText(f, p, c) == [q \in DOMAIN f \cup {p} |-> IF q = p THEN c ELSE f[q]]

\* path.parent
Parent(p) == SubSeq(p, 1, Len(p) - 1)

\* path.mkdir(parents=True, exist_ok=True): the directory and all its ancestors
MkDirs(d, p) == d \cup {SubSeq(p, 1, k) : k \in 0..Len(p)}

\* path.with_suffix(path.suffix + ".bak")
BackupOf(p) == [p EXCEPT ![Len(p)] = @ \o ".bak"]

----------------------------------------------------------------------------
(* safe_create_file(path, content, overwrite). *)

\* a variant without the early return for an existing file
SafeCreateNoGuard(f, d, p, c, ow) ==
    [fs |-> WriteText(f, p, c), dirs |-> MkDirs(d, Parent(p))]

safe_create_file(f, d, p, c, ow) ==
    [dirs |-> MkDirs(d, Parent(p)),
     fs   |-> IF Exists(f, p) /\ ~ow THEN f
              ELSE WriteText(IF Exists(f, p) /\ ow
                             THEN WriteText(f, BackupOf(p), f[p])   \* shutil.copy2
                             ELSE f,
                             p, c)]

----------------------------------------------------------------------------
(* patch_settings(repo_root, project_name, apps, cb). *)

MsgSettingsMissing == "warn: settings.py not found, skipping patch"
MsgSettingsPatched == "settings.py patched"

patch_settings(f, as) ==
    IF ~Exists(f, SettingsPath)
    THEN [fs |-> f, out |-> <<MsgSettingsMissing>>]
    ELSE [fs |-> WriteText(f, SettingsPath, PatchText(f[SettingsPath], as)),
          out |-> <<MsgSettingsPatched>>]

----------------------------------------------------------------------------
(* The texts the generator writes.  Only base.html is read back by the     *)
(* code (sanitize_templates), so only it is spelled out; of the others the *)
(* model keeps what they depend on.                                        *)

LoadStatic == "{% load static %}"
Doctype == "<!doctype html>"
HrefOpen == "href=\""
Quote == "\""

\* DEFAULT_BASE_HTML: a doctype, a stylesheet link through {% static %}, no {% load static %}
DEFAULT_BASE_HTML ==
    <<Doctype, NL, "<html>", NL, IND, "<link", SP, HrefOpen, "{%", SP, "static", SP,
      "'css/style.css'", SP, "%}", Quote, ">", NL, IND, "{% block content %}", NL,
      "</html>", NL>>

\* DEFAULT_HOME_HTML.replace("{{ project_name }}", repo_root.name)
DEFAULT_HOME_HTML == <<"{% extends 'base.html' %}", NL, LoadStatic, NL, "home", NL>>

DEFAULT_APP_INDEX_HTML == <<"{% extends 'base.html' %}", NL, "app_index", NL>>

DEFAULT_CSS == <<"/* minimal style.css */", NL>>

\* repr(apps)
RECURSIVE ReprItems(_)
ReprItems(as) ==
    IF as = <<>> THEN <<>>
    ELSE <<SQ(Head(as))>> \o (IF Len(as) > 1 THEN <<",", SP>> ELSE <<>>) \o ReprItems(Tail(as))

Repr(as) == <<"[">> \o ReprItems(as) \o <<"]">>

\* a variant that lists the include routes in the reverse order
RECURSIVE IncludeRoutesReversed(_)
IncludeRoutesReversed(as) ==
    IF as = <<>> THEN <<>>
    ELSE IncludeRoutesReversed(Tail(as))
           \o <<IND, "path(", SQ(Head(as) \o "/"), ",", SP, "include(", SQ(Head(as) \o ".urls"),
                ")", ")", ",", NL>>

\* base_urls += f"    path('{app}/', include('{app}.urls')),\n"
RECURSIVE IncludeRoutes(_)
IncludeRoutes(as) ==
    IF as = <<>> THEN <<>>
    ELSE <<IND, "path(", SQ(Head(as) \o "/"), ",", SP, "include(", SQ(Head(as) \o ".urls"),
           ")", ")", ",", NL>> \o IncludeRoutes(Tail(as))

\* the project-level urls.py
ProjectUrlsText(as) ==
    <<NL, "imports", NL, "def home(request):", NL, IND, "apps", SP, "=", SP>> \o Repr(as)
      \o <<NL, IND, "render home.html", SP, SQ(ProjectName), NL, NL,
           "urlpatterns", SP, "=", SP, "[", NL,
           IND, "path(", "''", ",", SP, "home", ")", ",", NL,
           IND, "path(", "'admin/'", ",", SP, "admin.site.urls", ")", ",", NL>>
      \o IncludeRoutes(as) \o <<"]", NL>>

\* templates/<app>/index.html
AppIndexHtml(app) ==
    <<NL, "{% extends 'base.html' %}", NL, "<h2>", app, SP, "App", "</h2>", NL>>

\* <app>/urls.py
AppUrlsText(app) ==
    <<NL, "urlpatterns", SP, "=", SP, "[", NL, IND, "path(", "''", ",", SP, "views.index",
      ",", SP, "name=", SQ(app \o "_index"), ")", ",", NL, "]", NL>>

\* <app>/views.py
AppViewsText(app, as) ==
    <<NL, "def index(request):", NL, IND, "apps", SP, "=", SP>> \o Repr(as)
      \o <<NL, IND, "render", SP, SQ(app \o "/index.html"), SP, SQ(ProjectName), NL>>

GitignoreText == <<NL, "# Python", NL, "__pycache__/", NL>>

ProjectUrlsPath == <<ProjectName, "urls.py">>
TemplatesDir == <<"templates">>
StaticDir == <<"static">>
BaseHtmlPath == <<"templates", "base.html">>
RequirementsPath == <<"requirements.txt">>

----------------------------------------------------------------------------
(* create_urls(repo_root, project_name, apps, cb). *)

\* the body of "for app in apps" for one module
AppFiles(f, d, app, as) ==
    LET d1 == MkDirs(d, <<"templates", app>>)
        r1 == safe_create_file(f, d1, <<"templates", app, "index.html">>,
                               AppIndexHtml(app), FALSE)
        r2 == safe_create_file(r1.fs, r1.dirs, <<app, "urls.py">>, AppUrlsText(app), TRUE)
    IN  safe_create_file(r2.fs, r2.dirs, <<app, "views.py">>, AppViewsText(app, as), TRUE)

RECURSIVE AppFilesLoop(_, _, _, _)
AppFilesLoop(f, d, rest, as) ==
    IF rest = <<>> THEN [fs |-> f, dirs |-> d]
    ELSE LET r == AppFiles(f, d, Head(rest), as)
         IN  AppFilesLoop(r.fs, r.dirs, Tail(rest), as)

\* write_text into a directory that does not exist raises FileNotFoundError
create_urls(f, d, as) ==
    IF Parent(ProjectUrlsPath) \notin d
    THEN [fs |-> f, dirs |-> d, ok |-> FALSE, out |-> <<"Creating/patching project urls.py">>]
    ELSE LET r == AppFilesLoop(WriteText(f, ProjectUrlsPath, ProjectUrlsText(as)), d, as, as)
         IN  [fs |-> r.fs, dirs |-> r.dirs, ok |-> TRUE,
              out |-> <<"Creating/patching project urls.py", "URLs and app views created">>]

----------------------------------------------------------------------------
(* create_template_structure(repo_root, apps, cb). *)

\* the files of the generator's own templates/ and static/ directories, when it
\* ships them (they are not part of the sources at hand: one file each)
BundledTemplates == (BaseHtmlPath :> <<Doctype, NL, LoadStatic, NL, "bundled base", NL>>)
BundledStatic == (<<"static", "css", "style.css">> :> <<"/* bundled css */", NL>>)

\* shutil.copytree(src, dst, dirs_exist_ok=True): every file of src replaces dst's
CopyTree(f, d, tree) ==
    [fs   |-> [q \in DOMAIN f \cup DOMAIN tree |-> IF q \in DOMAIN tree THEN tree[q] ELSE f[q]],
     dirs |-> UNION ({d} \cup {MkDirs({}, Parent(q)) : q \in DOMAIN tree})]

FallbackTemplates(f, d) ==
    LET d0 == MkDirs(d, TemplatesDir)
        r1 == safe_create_file(f, d0, BaseHtmlPath, DEFAULT_BASE_HTML, FALSE)
        r2 == safe_create_file(r1.fs, r1.dirs, <<"templates", "home.html">>,
                               DEFAULT_HOME_HTML, FALSE)
    IN  safe_create_file(r2.fs, r2.dirs, <<"templates", "app_index.html">>,
                         DEFAULT_APP_INDEX_HTML, FALSE)

FallbackStatic(f, d) ==
    safe_create_file(f, MkDirs(d, <<"static", "css">>), <<"static", "css", "style.css">>,
                     DEFAULT_CSS, FALSE)

create_template_structure(f, d, bundled) ==
    LET t == IF bundled THEN CopyTree(f, d, BundledTemplates) ELSE FallbackTemplates(f, d)
        r == IF bundled THEN CopyTree(t.fs, t.dirs, BundledStatic)
             ELSE FallbackStatic(t.fs, t.dirs)
    IN  [fs |-> r.fs, dirs |-> r.dirs, out |-> <<"Copying templates and static assets">>]

----------------------------------------------------------------------------
(* sanitize_templates(repo_root, cb). *)

\* text.replace("<!doctype html>", "<!doctype html>\n{% load static %}", 1)
ReplaceFirstDoctype(text) ==
    LET i == IndexFrom(text, Doctype, 1) IN
    IF i = 0 THEN text
    ELSE SubSeq(text, 1, i) \o <<NL, LoadStatic>> \o SubSeq(text, i + 1, Len(text))

\* "{% load static %}" in text: the characters of the directive, written as one
\* token or spelled out as a tag (as they are inside an href)
LoadStaticSpelled == <<"{%", SP, "load", SP, "static", SP, "%}">>
HasLoadStatic(text) == Contains(text, LoadStatic) \/ ContainsSeq(text, LoadStaticSpelled)

InsertLoadStatic(text) ==
    IF HasLoadStatic(text) THEN text
    ELSE IF startswith(lstrip(text), Doctype) THEN ReplaceFirstDoctype(text)
    ELSE <<LoadStatic, NL>> \o text

\* the first index >= i holding "%}" with no newline before it (0 if none): (.*?)%\}
RECURSIVE TagCloseFrom(_, _)
TagCloseFrom(text, i) ==
    IF i > Len(text) \/ text[i] = NL THEN 0
    ELSE IF text[i] = "%}" THEN i ELSE TagCloseFrom(text, i + 1)

\* href=\"\s*\{%(.*?)%\}\s*\"  matched at i: <<index of "{%", index of "%}", index of the closing quote>>
HrefTagAt(text, i) ==
    IF i > Len(text) \/ text[i] # HrefOpen THEN <<>>
    ELSE LET o == SkipSpace(text, i + 1) IN
         IF o > Len(text) \/ text[o] # "{%" THEN <<>>
         ELSE LET c == TagCloseFrom(text, o + 1) IN
              IF c = 0 THEN <<>>
              ELSE LET q == SkipSpace(text, c + 1) IN
                   IF q > Len(text) \/ text[q] # Quote THEN <<>> ELSE <<o, c, q>>

\* re.sub(..., lambda m: "href=\"{%" + m.group(1).strip() + "%}\"", text)
RECURSIVE FixHrefFrom(_, _)
FixHrefFrom(text, i) ==
    IF i > Len(text) THEN <<>>
    ELSE LET m == HrefTagAt(text, i) IN
         IF m # <<>>
         THEN <<HrefOpen, "{%">> \o strip(SubSeq(text, m[1] + 1, m[2] - 1)) \o <<"%}", Quote>>
                \o FixHrefFrom(text, m[3] + 1)
         ELSE <<text[i]>> \o FixHrefFrom(text, i + 1)

FixHref(text) == FixHrefFrom(text, 1)

SanitizeText(text) == FixHref(InsertLoadStatic(text))

sanitize_templates(f) ==
    IF ~Exists(f, BaseHtmlPath)
    THEN [fs |-> f, out |-> <<"No base.html found, skipping sanitize">>]
    ELSE IF SanitizeText(f[BaseHtmlPath]) # f[BaseHtmlPath]
    THEN [fs |-> WriteText(WriteText(f, BackupOf(BaseHtmlPath), f[BaseHtmlPath]),
                           BaseHtmlPath, SanitizeText(f[BaseHtmlPath])),
          out |-> <<"Sanitized templates/base.html (backup created)">>]
    ELSE [fs |-> f, out |-> <<"templates/base.html looks good; no changes made">>]

----------------------------------------------------------------------------
(* The settings files patch_settings is tried on: a file is a prelude, an  *)
(* INSTALLED_APPS section, the MIDDLEWARE section, a TEMPLATES section, a  *)
(* STATIC_URL line and a STATICFILES_DIRS line, each in one of its         *)
(* variants (the ...Default one is the layout startproject generates,      *)
(* <<>> leaves the section out), with or without a final newline.          *)

AppsOpenLine == <<"INSTALLED_APPS", SP, "=", SP, "[">>
AdminLine == <<IND, "'django.contrib.admin'", ",">>
CloseLine == <<"]">>
TemplatesOpenLine == <<"TEMPLATES", SP, "=", SP, "[">>
AppDirsLine == <<IND, IND>> \o AppDirsEntry

AppsDefault == <<AppsOpenLine, AdminLine, CloseLine>>
TemplatesWith(ls) == <<TemplatesOpenLine, <<IND, "{">>>> \o ls \o <<<<IND, "}", ",">>, CloseLine>>
TemplatesDefault ==
    TemplatesWith(<<<<IND, IND, "'DIRS'", ":", SP, "[", "]", ",">>, AppDirsLine>>)
StaticUrlDefault == <<<<"STATIC_URL", SP, "=", SP, "'static/'">>>>

PreludeVariants ==
    { <<>>,
      <<<<"#", SP, "see", SP, SQ("blog")>>>>,
      <<<<"#", SP, "'DIRS'", ":", SP, "[">>>> }

AppsVariants ==
    { AppsDefault,
      <<>>,
      <<AppsOpenLine, AdminLine, RegistrationLine("blog"), CloseLine>>,
      <<AppsOpenLine, <<IND, DQ("blog"), ",">>, CloseLine>>,
      <<<<"INSTALLED_APPS", SP, "=", SP, "[", "]">>>> }

MiddlewareDefault == <<<<"MIDDLEWARE", SP, "=", SP, "[">>, CloseLine>>

TemplatesVariants ==
    { TemplatesDefault,
      <<>>,
      TemplatesWith(<<AppDirsLine>>),
      TemplatesWith(<<<<IND, IND, "\"DIRS\"", ":", SP, "[", "]", ",">>, AppDirsLine>>),
      TemplatesWith(<<<<IND, IND, "'DIRS'", ":", SP, "[", "BASE_DIR", SP, "/", SP,
                        SQ("blog"), "]", ",">>, AppDirsLine>>),
      TemplatesWith(<<<<IND, IND, "'BACKEND'", ":", SP, "'jinja2'", ",">>>>) }

StaticUrlVariants ==
    { StaticUrlDefault,
      <<>>,
      <<<<"STATIC_URL", SP, "=", SP, "\"/assets/\"">>>>,
      <<<<"STATIC_URL", SP, "=", SP, "env", "(", "'static/'", ")">>>> }

StaticDirsVariants ==
    { <<>>,
      <<StaticDirsDecl>>,
      <<<<"STATICFILES_DIRS", SP, "=", SP, "[", "BASE_DIR", SP, "/", SP, "'assets'", "]">>>> }

SettingsOf(pre, ia, tp, su, sd, nl) ==
    join(pre \o ia \o MiddlewareDefault \o tp \o su \o sd) \o (IF nl THEN <<NL>> ELSE <<>>)

\* the settings.py that "django-admin startproject" generates
DefaultSettings ==
    SettingsOf(<<>>, AppsDefault, TemplatesDefault, StaticUrlDefault, <<>>, TRUE)

SettingsFiles ==
    { SettingsOf(pre, ia, tp, su, sd, nl) :
        pre \in PreludeVariants, ia \in AppsVariants, tp \in TemplatesVariants, su \in StaticUrlVariants, sd \in StaticDirsVariants,
        nl \in BOOLEAN }

\* the module lists: every sequence over AppNames of length at most MaxApps
AppLists == UNION {[1..n -> AppNames] : n \in 0..MaxApps}

NoOpts == [create_venv |-> FALSE, create_templates |-> FALSE,
           init_git_flag |-> FALSE, dry_run |-> FALSE]

NoEnv == [bundled |-> FALSE]

Call(op, p, c, ow, f) == [op |-> op, path |-> p, content |-> c, overwrite |-> ow, fs |-> f]

----------------------------------------------------------------------------
(* SpecPatch: patch_settings called repeatedly, with the same module list, *)
(* on a destination that holds one of the settings files, or none.         *)

InitPatch ==
    /\ fs \in {WriteText(NoFiles, SettingsPath, t) : t \in SettingsFiles} \cup {NoFiles}
    /\ dirs = {<<>>, <<ProjectName>>}
    /\ apps \in AppLists
    /\ opts = NoOpts
    /\ pc = "lib"
    /\ idx = 0
    /\ steps = <<>>
    /\ out = <<>>
    /\ hist = <<Call("init", <<>>, <<>>, FALSE, fs)>>
    /\ env = NoEnv

PatchSettingsCall ==
    /\ pc = "lib"
    /\ Len(hist) <= MaxCalls
    /\ LET r == patch_settings(fs, apps) IN
        /\ fs' = r.fs
        /\ out' = out \o r.out
        /\ steps' = Append(steps, "patch_settings")
        /\ hist' = Append(hist, Call("patch_settings", SettingsPath, <<>>, FALSE, r.fs))
    /\ UNCHANGED <<dirs, apps, opts, pc, idx, env>>

NextPatch == PatchSettingsCall

SpecPatch == InitPatch /\ [][NextPatch]_vars

----------------------------------------------------------------------------
(* The INSTALLED_APPS block of a settings text, as the claims speak of it: *)
(* the lines between the first line starting with INSTALLED_APPS and the   *)
(* next line starting with "]".                                            *)

RECURSIVE FirstLineFrom(_, _, _)
FirstLineFrom(lines, tok, i) ==
    IF i > Len(lines) THEN 0
    ELSE IF startswith(strip(lines[i]), tok) THEN i ELSE FirstLineFrom(lines, tok, i + 1)

BlockStart(lines) == FirstLineFrom(lines, "INSTALLED_APPS", 1)

BlockEnd(lines) ==
    IF BlockStart(lines) = 0 THEN 0 ELSE FirstLineFrom(lines, "]", BlockStart(lines) + 1)

HasAppsBlock(text) == BlockEnd(splitlines(text)) # 0

AppsBlock(text) ==
    LET ls == splitlines(text) IN
    IF BlockEnd(ls) = 0 THEN <<>> ELSE SubSeq(ls, BlockStart(ls) + 1, BlockEnd(ls) - 1)

IsRegistrationOf(line, a) == strip(line) \in {<<SQ(a), ",">>, <<DQ(a), ",">>}

Registrations(text, a) ==
    LET b == AppsBlock(text) IN Cardinality({i \in 1..Len(b) : IsRegistrationOf(b[i], a)})

NoRepeats(as) == \A i, j \in 1..Len(as) : as[i] = as[j] => i = j

Mentions(text, a) == Contains(text, SQ(a)) \/ Contains(text, DQ(a))

\* the settings text before the first call, and the number of calls made
Settings0 == hist[1].fs[SettingsPath]
Patched(n) == pc = "lib" /\ Len(hist) >= n + 1 /\ Exists(hist[1].fs, SettingsPath)

\* the layout the registration relies on: a multi-line INSTALLED_APPS list
\* closed by a line starting with "]", and no 'DIRS' key up to that line
BlockLayout(text) ==
    LET ls == splitlines(text) IN
    /\ BlockEnd(ls) # 0
    /\ ~Contains(ls[BlockStart(ls)], "]")
    /\ \A k \in 1..BlockEnd(ls) : ~Contains(ls[k], "'DIRS'")

----------------------------------------------------------------------------
(* C1 as stated: after one or more calls of patch_settings on an existing  *)
(* settings.py, every module name of apps has exactly one registration     *)
(* line in the INSTALLED_APPS block, whatever the file held before.        *)
C1_EveryFile ==
    Patched(1) => \A i \in 1..Len(apps) : Registrations(fs[SettingsPath], apps[i]) = 1

(* C1 amended: when the file has a multi-line INSTALLED_APPS list closed   *)
(* by a line starting with "]" with no 'DIRS' key up to that line, apps    *)
(* repeats no name, and each name of apps is either quoted nowhere in the  *)
(* file or has exactly one registration line in the block, then after one  *)
(* or more calls every name of apps has exactly one registration line in   *)
(* the block.                                                              *)
C1_Registered ==
    (/\ Patched(1)
     /\ NoRepeats(apps)
     /\ BlockLayout(Settings0)
     /\ \A i \in 1..Len(apps) :
            ~Mentions(Settings0, apps[i]) \/ Registrations(Settings0, apps[i]) = 1)
    => \A i \in 1..Len(apps) : Registrations(fs[SettingsPath], apps[i]) = 1

\* two calls have been made on a well laid out file and a name was newly registered
C1_Witness ==
    /\ Patched(2)
    /\ NoRepeats(apps)
    /\ BlockLayout(Settings0)
    /\ Len(apps) = 2
    /\ ~Mentions(Settings0, apps[1])
    /\ Registrations(Settings0, apps[2]) = 1
    /\ \A i \in 1..Len(apps) : Registrations(fs[SettingsPath], apps[i]) = 1

(* C2: for every module list and every starting settings.py, the           *)
(* INSTALLED_APPS block after two successive calls of patch_settings is    *)
(* the block after one call.                                               *)
C2_SecondCallAddsNothing ==
    Patched(2) =>
        AppsBlock(hist[3].fs[SettingsPath]) = AppsBlock(hist[2].fs[SettingsPath])

(* C10 as stated: after patch_settings has run on any existing settings.py *)
(* the file holds 'DIRS': [BASE_DIR / 'templates'] and                     *)
(* STATICFILES_DIRS = [BASE_DIR / 'static'].                               *)
HasTemplateDirs(text) == ContainsSeq(text, DirsEntry)
HasStaticDirs(text) == ContainsSeq(text, StaticDirsDecl)

C10_EveryFile ==
    Patched(1) => HasTemplateDirs(fs[SettingsPath]) /\ HasStaticDirs(fs[SettingsPath])

\* the file has a single-quoted 'DIRS': [ ... ] list
HasDirsList(text) == \E i \in 1..Len(text) : DirsListAt(text, i) # 0

(* C10 amended: after one or more calls on an existing settings.py, the    *)
(* file holds 'DIRS': [BASE_DIR / 'templates'] if it had a single-quoted   *)
(* 'DIRS': [...] list, or had no 'DIRS': [ at all but mentions TEMPLATES   *)
(* and holds 'APP_DIRS': True, ; and it holds                              *)
(* STATICFILES_DIRS = [BASE_DIR / 'static'] if it did not mention          *)
(* STATICFILES_DIRS before, while a file that did keeps what it declared.  *)
C10_SearchPaths ==
    Patched(1) =>
        /\ (\/ HasDirsList(Settings0)
            \/ /\ ~SearchDirsOpen(Settings0)
               /\ Contains(Settings0, "TEMPLATES")
               /\ ContainsSeq(Settings0, AppDirsEntry))
           => HasTemplateDirs(fs[SettingsPath])
        /\ ~Contains(Settings0, "STATICFILES_DIRS") => HasStaticDirs(fs[SettingsPath])
        /\ Contains(Settings0, "STATICFILES_DIRS")
           => /\ HasStaticDirs(fs[SettingsPath]) <=> HasStaticDirs(Settings0)
              /\ Count(fs[SettingsPath], "STATICFILES_DIRS") = Count(Settings0, "STATICFILES_DIRS")

\* a file with TEMPLATES but no 'DIRS' list and no STATICFILES_DIRS got both entries
C10_Witness ==
    /\ Patched(1)
    /\ ~SearchDirsOpen(Settings0)
    /\ ContainsSeq(Settings0, AppDirsEntry)
    /\ ~Contains(Settings0, "STATICFILES_DIRS")
    /\ HasTemplateDirs(fs[SettingsPath])
    /\ HasStaticDirs(fs[SettingsPath])

----------------------------------------------------------------------------
(* SpecWriter: safe_create_file called repeatedly on the files of a module *)
(* directory, which is empty or holds a file the user wrote.               *)

WriterPaths == {<<"blog", "urls.py">>, <<"blog", "views.py">>}
WriterContents == {<<"v1">>, <<"v2">>, <<"v3">>}
UserContent == <<"user">>

InitWriter ==
    /\ fs \in {NoFiles} \cup {WriteText(NoFiles, p, UserContent) : p \in WriterPaths}
    /\ dirs = {<<>>} \cup {Parent(p) : p \in DOMAIN fs}
    /\ apps = <<>>
    /\ opts = NoOpts
    /\ pc = "lib"
    /\ idx = 0
    /\ steps = <<>>
    /\ out = <<>>
    /\ hist = <<Call("init", <<>>, <<>>, FALSE, fs)>>
    /\ env = NoEnv

SafeCreateFileCall ==
    /\ pc = "lib"
    /\ Len(hist) <= MaxWrites
    /\ \E p \in WriterPaths, c \in WriterContents, ow \in BOOLEAN :
        LET r == safe_create_file(fs, dirs, p, c, ow) IN
        /\ fs' = r.fs
        /\ dirs' = r.dirs
        /\ steps' = Append(steps, "safe_create_file")
        /\ hist' = Append(hist, Call("safe_create_file", p, c, ow, r.fs))
    /\ UNCHANGED <<apps, opts, pc, idx, out, env>>

NextWriter == SafeCreateFileCall

SpecWriter == InitWriter /\ [][NextWriter]_vars

(* C3: safe_create_file with overwrite=False leaves every file as it was   *)
(* when the path already exists, whatever the content argument, and makes  *)
(* no backup; when the path does not exist it writes the content to it,    *)
(* and nothing else.                                                       *)
C3_WriteIfAbsent ==
    \A k \in 2..Len(hist) :
        (hist[k].op = "safe_create_file" /\ ~hist[k].overwrite) =>
            LET before == hist[k - 1].fs
                after == hist[k].fs
            IN  IF Exists(before, hist[k].path)
                THEN after = before
                ELSE after = WriteText(before, hist[k].path, hist[k].content)

\* an overwrite=False call on an existing file, with a content other than the file's
C3_Witness ==
    \E k \in 2..Len(hist) :
        /\ hist[k].op = "safe_create_file"
        /\ ~hist[k].overwrite
        /\ Exists(hist[k - 1].fs, hist[k].path)
        /\ hist[k - 1].fs[hist[k].path] # hist[k].content
        /\ hist[k].fs = hist[k - 1].fs

(* C4: in a sequence of safe_create_file(path, content, overwrite=True)    *)
(* calls on one path, the path holds the newest content after each call    *)
(* and every version of the file that a call overwrote is still held by a  *)
(* backup file afterwards.                                                 *)
OnlyOverwritesOf(p) ==
    \A k \in 2..Len(hist) :
        hist[k].op = "safe_create_file" /\ hist[k].overwrite /\ hist[k].path = p

C4_EveryVersionBackedUp ==
    \A p \in WriterPaths :
        (Len(hist) >= 2 /\ OnlyOverwritesOf(p)) =>
            /\ fs[p] = Last(hist).content
            /\ \A k \in 2..Len(hist) :
                   Exists(hist[k - 1].fs, p) =>
                       \E q \in DOMAIN fs \ {p} : fs[q] = hist[k - 1].fs[p]

----------------------------------------------------------------------------
(* The external programs create_project launches through run_command and   *)
(* venv.EnvBuilder.  Each may fail.  What they leave under the destination *)
(* when they succeed is Django's, not the generator's: startproject writes *)
(* manage.py and the project package and refuses a destination that holds  *)
(* manage.py already; startapp writes the module's directory and refuses a *)
(* name whose directory exists.                                            *)

ManagePy == <<"manage.py">>
VenvDir == <<".venv">>
GitDir == <<".git">>
DjangoViewsText == <<"from django.shortcuts import render", NL>>
DjangoUrlsText == <<"urlpatterns", SP, "=", SP, "[", "admin", "]", NL>>
FreezeOutput == <<"Django==5.0">>

StartprojectFiles ==
    (ManagePy :> <<"manage.py">>) @@ (SettingsPath :> DefaultSettings)
        @@ (ProjectUrlsPath :> DjangoUrlsText)

StartprojectOutcomes(f) == IF Exists(f, ManagePy) THEN {FALSE} ELSE BOOLEAN

StartappOutcomes(d, app) == IF <<app>> \in d THEN {FALSE} ELSE BOOLEAN

\* run_command's messages: the command line, and on a non-zero exit the two error lines
RunCommandLog(cmd, ok) ==
    <<"run: " \o cmd>>
      \o (IF ok THEN <<>> ELSE <<"Command failed: " \o cmd, "Error running " \o cmd>>)

----------------------------------------------------------------------------
(* create_project: the decisions it takes. *)

Step(op, ok) == [op |-> op, ok |-> ok]

\* a variant that generates routing for an empty module list too
RoutingWantedAlways(as) == TRUE

\* "if apps:" before create_urls
RoutingWanted(as) == as # <<>>

\* a variant in which only the git failure is caught
SwallowedGitOnly(op) == op = "init_git"

\* a variant in which a failed install of the framework is caught as well
SwallowedInstallToo(op) == op \in {"write_requirements", "init_git", "pip_install"}

\* the steps whose failure is caught and logged: the try/except of
\* write_requirements and of init_git
Swallowed(op) == op \in {"write_requirements", "init_git"}

\* does the run go on after the step op ended with ok: run_command raises on a
\* non-zero exit, and only the swallowed steps catch it
Continues(op, ok) == ok \/ Swallowed(op)

\* a variant that takes the snapshot in a dry run as well
SnapshotLiveAlways(dry) == TRUE

\* "if dry_run: ... else: write_requirements(...)"
SnapshotLive(dry) == ~dry

MsgSuccess == "Django project created successfully!"
MsgDry(what) == "[dry-run] would " \o what
MsgWarnFreeze == "warn: Could not write requirements.txt"
MsgWarnGit == "warn: Git initialization failed"

RunRecord(dry, f, d) ==
    [op |-> "create_project", dry_run |-> dry, before |-> [fs |-> f, dirs |-> d],
     result |-> "running", fs |-> f]

Ended(h, res, f) == [h EXCEPT ![Len(h)].result = res, ![Len(h)].fs = f]

----------------------------------------------------------------------------
(* SpecRun: create_project run up to MaxRuns times on one destination,     *)
(* each time with the same module list and flags, dry or live.             *)

Flags == [create_venv : BOOLEAN, create_templates : BOOLEAN,
          init_git_flag : BOOLEAN, dry_run : {FALSE}]

\* what the user may have put in the destination before the first run
UserFiles ==
    (RequirementsPath :> <<"flask", NL>>)
        @@ (BaseHtmlPath :> <<"<!DOCTYPE html>", NL, "my base", NL>>)
        @@ (<<"templates", "blog", "index.html">> :> <<"my blog page", NL>>)

Destinations ==
    { [fs |-> NoFiles, dirs |-> {}],
      [fs |-> NoFiles, dirs |-> {<<>>}],
      [fs |-> UserFiles, dirs |-> UNION {MkDirs({}, Parent(q)) : q \in DOMAIN UserFiles}] }

InitRun ==
    /\ \E dst \in Destinations : fs = dst.fs /\ dirs = dst.dirs
    /\ apps \in AppLists
    /\ opts \in Flags
    /\ env \in [bundled : BOOLEAN]
    /\ pc = "idle"
    /\ idx = 0
    /\ steps = <<>>
    /\ out = <<>>
    /\ hist = <<[op |-> "init", fs |-> fs, dirs |-> dirs, result |-> "init"]>>

\* create_project, lines 31-36: the destination is created, whatever the mode
StartRun ==
    /\ pc \in {"idle", "done", "raised"}
    /\ Len(hist) <= MaxRuns
    /\ \E dry \in BOOLEAN :
        /\ opts' = [opts EXCEPT !.dry_run = dry]
        /\ hist' = Append(hist, RunRecord(dry, fs, dirs))
    /\ dirs' = MkDirs(dirs, <<>>)
    /\ out' = <<"Destination">>
    /\ steps' = <<>>
    /\ idx' = 1
    /\ pc' = "venv"
    /\ UNCHANGED <<fs, apps, env>>

\* lines 38-46, and create_virtualenv
EnsureEnvironment ==
    /\ pc = "venv"
    /\ \/ /\ ~opts.create_venv
          /\ pc' = "install"
          /\ UNCHANGED <<dirs, steps, out, hist>>
       \/ /\ opts.create_venv /\ opts.dry_run
          /\ out' = Append(out, MsgDry("create virtualenv"))
          /\ pc' = "install"
          /\ UNCHANGED <<dirs, steps, hist>>
       \/ /\ opts.create_venv /\ ~opts.dry_run /\ VenvDir \in dirs
          /\ out' = Append(out, ".venv already exists, skipping creation")
          /\ steps' = Append(steps, Step("create_virtualenv", TRUE))
          /\ pc' = "install"
          /\ UNCHANGED <<dirs, hist>>
       \/ /\ opts.create_venv /\ ~opts.dry_run /\ VenvDir \notin dirs
          /\ out' = Append(out, "Creating virtual environment")
          /\ \E ok \in BOOLEAN :
              /\ steps' = Append(steps, Step("create_virtualenv", ok))
              /\ dirs' = IF ok THEN dirs \cup {VenvDir} ELSE dirs
              /\ pc' = IF Continues("create_virtualenv", ok) THEN "install" ELSE "raised"
              /\ hist' = IF Continues("create_virtualenv", ok) THEN hist
                         ELSE Ended(hist, "raised", fs)
    /\ UNCHANGED <<fs, apps, opts, idx, env>>

\* lines 48-53, and install_django: two pip commands, either may fail
InstallFramework ==
    /\ pc = "install"
    /\ \/ /\ opts.dry_run
          /\ out' = out \o <<MsgDry("install Django"), MsgDry("run startproject")>>
          /\ pc' = "apps"
          /\ UNCHANGED <<steps, hist>>
       \/ /\ ~opts.dry_run
          /\ \E up \in BOOLEAN, inst \in BOOLEAN :
              LET second == Continues("pip_upgrade", up)
                  through == second /\ Continues("pip_install", inst)
              IN
              /\ second \/ inst      \* without a second command its outcome is no case
              /\ steps' = steps \o <<Step("pip_upgrade", up)>>
                            \o (IF second THEN <<Step("pip_install", inst)>> ELSE <<>>)
              /\ out' = out \o <<"Installing/ensuring Django">>
                            \o RunCommandLog("pip install --upgrade pip", up)
                            \o (IF second THEN RunCommandLog("pip install django", inst)
                                ELSE <<>>)
                            \o (IF through THEN <<"Django ready">> ELSE <<>>)
              /\ pc' = IF through THEN "startproject" ELSE "raised"
              /\ hist' = IF through THEN hist ELSE Ended(hist, "raised", fs)
    /\ UNCHANGED <<fs, dirs, apps, opts, idx, env>>

\* lines 55-58
CreateProject ==
    /\ pc = "startproject"
    /\ \E ok \in StartprojectOutcomes(fs) :
        /\ steps' = Append(steps, Step("startproject", ok))
        /\ out' = out \o <<"Creating Django project">> \o RunCommandLog("django startproject", ok)
        /\ fs' = IF ok THEN StartprojectFiles @@ fs ELSE fs
        /\ dirs' = IF ok THEN dirs \cup {<<ProjectName>>} ELSE dirs
        /\ pc' = IF Continues("startproject", ok) THEN "apps" ELSE "raised"
        /\ hist' = IF Continues("startproject", ok) THEN hist ELSE Ended(hist, "raised", fs)
    /\ UNCHANGED <<apps, opts, idx, env>>

\* lines 61-69: one pass of "for app in apps"
CreateModules ==
    /\ pc = "apps"
    /\ \/ /\ idx > Len(apps)
          /\ pc' = "patch"
          /\ UNCHANGED <<fs, dirs, idx, steps, out, hist>>
       \/ /\ idx <= Len(apps) /\ opts.dry_run
          /\ out' = out \o <<"Creating app " \o apps[idx], MsgDry("run startapp " \o apps[idx])>>
          /\ idx' = idx + 1
          /\ UNCHANGED <<fs, dirs, pc, steps, hist>>
       \/ /\ idx <= Len(apps) /\ ~opts.dry_run
          /\ \E ok \in StartappOutcomes(dirs, apps[idx]) :
              /\ steps' = Append(steps, Step("startapp " \o apps[idx], ok))
              /\ out' = out \o <<"Creating app " \o apps[idx]>>
                            \o RunCommandLog("manage.py startapp " \o apps[idx], ok)
              /\ fs' = IF ok THEN WriteText(fs, <<apps[idx], "views.py">>, DjangoViewsText)
                       ELSE fs
              /\ dirs' = IF ok THEN dirs \cup {<<apps[idx]>>} ELSE dirs
              /\ idx' = IF Continues("startapp", ok) THEN idx + 1 ELSE idx
              /\ pc' = IF Continues("startapp", ok) THEN "apps" ELSE "raised"
              /\ hist' = IF Continues("startapp", ok) THEN hist ELSE Ended(hist, "raised", fs)
    /\ UNCHANGED <<apps, opts, env>>

\* lines 73 and 82
PatchConfiguration ==
    /\ pc = "patch"
    /\ \/ /\ opts.dry_run
          /\ out' = Append(out, MsgDry("patch settings.py"))
          /\ UNCHANGED <<fs, steps>>
       \/ /\ ~opts.dry_run
          /\ LET r == patch_settings(fs, apps) IN
              /\ fs' = r.fs
              /\ out' = out \o r.out
              /\ steps' = Append(steps, Step("patch_settings", TRUE))
    /\ pc' = "urls"
    /\ UNCHANGED <<dirs, apps, opts, idx, hist, env>>

\* lines 74-75 and 83-84
GenerateRouting ==
    /\ pc = "urls"
    /\ \/ /\ ~RoutingWanted(apps)
          /\ pc' = "templates"
          /\ UNCHANGED <<fs, dirs, steps, out, hist>>
       \/ /\ RoutingWanted(apps) /\ opts.dry_run
          /\ out' = Append(out, MsgDry("create project-level urls and app urls"))
          /\ pc' = "templates"
          /\ UNCHANGED <<fs, dirs, steps, hist>>
       \/ /\ RoutingWanted(apps) /\ ~opts.dry_run
          /\ LET r == create_urls(fs, dirs, apps) IN
              /\ fs' = r.fs
              /\ dirs' = r.dirs
              /\ out' = out \o r.out
              /\ steps' = Append(steps, Step("create_urls", r.ok))
              /\ pc' = IF r.ok THEN "templates" ELSE "raised"
              /\ hist' = IF r.ok THEN hist ELSE Ended(hist, "raised", r.fs)
    /\ UNCHANGED <<apps, opts, idx, env>>

\* lines 76-77 and 85-89: create_template_structure, then sanitize_templates
MaterializeAssets ==
    /\ pc = "templates"
    /\ \/ /\ ~opts.create_templates
          /\ UNCHANGED <<fs, dirs, steps, out>>
       \/ /\ opts.create_templates /\ opts.dry_run
          /\ out' = Append(out, MsgDry("create templates/static"))
          /\ UNCHANGED <<fs, dirs, steps>>
       \/ /\ opts.create_templates /\ ~opts.dry_run
          /\ LET r == create_template_structure(fs, dirs, env.bundled)
                 z == sanitize_templates(r.fs)
             IN  /\ fs' = z.fs
                 /\ dirs' = r.dirs
                 /\ out' = out \o r.out \o z.out
                 /\ steps' = steps \o <<Step("create_template_structure", TRUE),
                                        Step("sanitize_templates", TRUE)>>
    /\ pc' = "freeze"
    /\ UNCHANGED <<apps, opts, idx, hist, env>>

\* lines 78 and 90, and write_requirements
SnapshotDependencies ==
    /\ pc = "freeze"
    /\ \/ /\ ~SnapshotLive(opts.dry_run)
          /\ out' = Append(out, MsgDry("write requirements.txt"))
          /\ pc' = "git"
          /\ UNCHANGED <<fs, steps, hist>>
       \/ /\ SnapshotLive(opts.dry_run)
          /\ \E ok \in BOOLEAN :
              /\ steps' = Append(steps, Step("write_requirements", ok))
              /\ fs' = IF ok THEN WriteText(fs, RequirementsPath, FreezeOutput) ELSE fs
              /\ out' = out \o <<"Writing requirements.txt">> \o RunCommandLog("pip freeze", ok)
                            \o (IF ok THEN <<>> ELSE <<MsgWarnFreeze>>)
              /\ pc' = IF Continues("write_requirements", ok) THEN "git" ELSE "raised"
              /\ hist' = IF Continues("write_requirements", ok) THEN hist
                         ELSE Ended(hist, "raised", fs')
    /\ UNCHANGED <<dirs, apps, opts, idx, env>>

\* lines 79-80 and 91-92, init_git and create_gitignore
InitVersionControl ==
    /\ pc = "git"
    /\ \/ /\ ~opts.init_git_flag
          /\ pc' = "finish"
          /\ UNCHANGED <<fs, dirs, steps, out, hist>>
       \/ /\ opts.init_git_flag /\ opts.dry_run
          /\ out' = Append(out, MsgDry("initialize git"))
          /\ pc' = "finish"
          /\ UNCHANGED <<fs, dirs, steps, hist>>
       \/ /\ opts.init_git_flag /\ ~opts.dry_run
          /\ LET g == safe_create_file(fs, dirs, <<".gitignore">>, GitignoreText, FALSE) IN
             \E ok \in BOOLEAN :
              /\ steps' = Append(steps, Step("init_git", ok))
              /\ fs' = g.fs
              /\ dirs' = IF ok THEN g.dirs \cup {GitDir} ELSE g.dirs
              /\ out' = out \o <<".gitignore created">> \o RunCommandLog("git init", ok)
                            \o (IF ok THEN <<"Git repository initialized">> ELSE <<MsgWarnGit>>)
              /\ pc' = IF Continues("init_git", ok) THEN "finish" ELSE "raised"
              /\ hist' = IF Continues("init_git", ok) THEN hist
                         ELSE Ended(hist, "raised", fs')
    /\ UNCHANGED <<apps, opts, idx, env>>

\* line 94
Finish ==
    /\ pc = "finish"
    /\ out' = Append(out, MsgSuccess)
    /\ pc' = "done"
    /\ hist' = Ended(hist, "done", fs)
    /\ UNCHANGED <<fs, dirs, apps, opts, idx, steps, env>>

NextRun ==
    \/ StartRun
    \/ EnsureEnvironment
    \/ InstallFramework
    \/ CreateProject
    \/ CreateModules
    \/ PatchConfiguration
    \/ GenerateRouting
    \/ MaterializeAssets
    \/ SnapshotDependencies
    \/ InitVersionControl
    \/ Finish

SpecRun == InitRun /\ [][NextRun]_vars

----------------------------------------------------------------------------
(* The steps a live run is to perform for a module list and flags, in      *)
(* order, each with the message a dry run gives for it (spec 4.6).         *)

Planned(op, what) == [op |-> op, msg |-> MsgDry(what)]

RECURSIVE PlannedStartapps(_)
PlannedStartapps(as) ==
    IF as = <<>> THEN <<>>
    ELSE <<Planned("startapp " \o Head(as), "run startapp " \o Head(as))>>
           \o PlannedStartapps(Tail(as))

PlannedSteps(as, o) ==
    (IF o.create_venv THEN <<Planned("create_virtualenv", "create virtualenv")>> ELSE <<>>)
      \o <<Planned("pip_upgrade", "install Django"), Planned("pip_install", "install Django"),
           Planned("startproject", "run startproject")>>
      \o PlannedStartapps(as)
      \o <<Planned("patch_settings", "patch settings.py")>>
      \o (IF as # <<>>
          THEN <<Planned("create_urls", "create project-level urls and app urls")>> ELSE <<>>)
      \o (IF o.create_templates
          THEN <<Planned("create_template_structure", "create templates/static"),
                 Planned("sanitize_templates", "create templates/static")>>
          ELSE <<>>)
      \o <<Planned("write_requirements", "write requirements.txt")>>
      \o (IF o.init_git_flag THEN <<Planned("init_git", "initialize git")>> ELSE <<>>)

InRun == pc # "idle"
LiveRun == InRun /\ ~opts.dry_run
DryRun == InRun /\ opts.dry_run
RunStart == Last(hist).before

AllOk(st) == \A i \in 1..Len(st) : st[i].ok
OpsOf(st) == [i \in 1..Len(st) |-> st[i].op]
PlannedOps == LET ps == PlannedSteps(apps, opts) IN [i \in 1..Len(ps) |-> ps[i].op]
IsPrefix(a, b) == Len(a) <= Len(b) /\ a = SubSeq(b, 1, Len(a))

Sent(msg) == \E i \in 1..Len(out) : out[i] = msg

(* C5: in a dry run, whatever the flags and the module list, no file is    *)
(* created or modified, no directory but the destination is created, no    *)
(* operation is performed and no external process launched, the run does  *)
(* not raise, and when it is done the callback has received the message of *)
(* every step the live run with the same inputs would perform.             *)
C5_DryRunFrame ==
    DryRun =>
        /\ fs = RunStart.fs
        /\ dirs = RunStart.dirs \cup {<<>>}
        /\ steps = <<>>
        /\ pc # "raised"
        /\ pc = "done" =>
               \A i \in 1..Len(PlannedSteps(apps, opts)) : Sent(PlannedSteps(apps, opts)[i].msg)

\* a dry run with every flag set and two modules is done, on a destination it created
C5_Witness ==
    /\ DryRun /\ pc = "done"
    /\ opts.create_venv /\ opts.create_templates /\ opts.init_git_flag
    /\ Len(apps) = 2
    /\ RunStart.dirs = {}
    /\ dirs = {<<>>}

(* C6: a second live run with the same inputs, on the destination a first  *)
(* live run completed, does not raise, leaves every templates/<module>/    *)
(* index.html as it was and leaves exactly one registration line per       *)
(* module in settings.py.  The second run is one in which both pip         *)
(* commands succeed, so that nothing but the rerun itself can make it      *)
(* raise.                                                                  *)
C6_RerunSafe ==
    (/\ Len(hist) = 3
     /\ hist[2].result = "done" /\ ~hist[2].dry_run
     /\ ~hist[3].dry_run /\ hist[3].result # "running"
     /\ \A i \in 1..Len(steps) : steps[i].op \in {"pip_upgrade", "pip_install"} => steps[i].ok)
    => /\ hist[3].result = "done"
       /\ \A i \in 1..Len(apps) :
              /\ Exists(hist[2].fs, <<"templates", apps[i], "index.html">>)
                   => fs[<<"templates", apps[i], "index.html">>]
                        = hist[2].fs[<<"templates", apps[i], "index.html">>]
              /\ Exists(fs, SettingsPath) /\ Registrations(fs[SettingsPath], apps[i]) = 1

(* C7: in a live run in which no step has failed, the operations performed *)
(* so far are the first of the planned ones, in the planned order (ensure  *)
(* environment only with create_venv, install, create project, one         *)
(* startapp per module in list order, patch, routing iff the module list   *)
(* is non-empty, assets then sanitize iff create_templates, snapshot, git  *)
(* iff init_git_flag); the run is done exactly when all of them have been  *)
(* performed, once each, and the success message is the last one sent.     *)
C7_StepOrder ==
    (LiveRun /\ AllOk(steps)) =>
        /\ IsPrefix(OpsOf(steps), PlannedOps)
        /\ pc # "raised"
        /\ pc = "done" => OpsOf(steps) = PlannedOps /\ Last(out) = MsgSuccess
        /\ Sent(MsgSuccess) => pc = "done"

\* a live run with every flag set and two modules is done without a failure
C7_Witness ==
    /\ LiveRun /\ AllOk(steps) /\ pc = "done"
    /\ opts.create_venv /\ opts.create_templates /\ opts.init_git_flag
    /\ Len(apps) = 2
    /\ Len(steps) = 12

FatalOps == {"create_virtualenv", "pip_upgrade", "pip_install", "startproject"}

(* C8: when environment creation, either pip command or startproject fails *)
(* in a live run, create_project raises: the failed step is the last       *)
(* operation performed (no module creation, patch, routing, assets,        *)
(* snapshot or git follows) and the success message is never sent.        *)
C8_FatalAborts ==
    LiveRun =>
        \A i \in 1..Len(steps) :
            (steps[i].op \in FatalOps /\ ~steps[i].ok) =>
                /\ i = Len(steps)
                /\ pc = "raised"
                /\ Last(hist).result = "raised"
                /\ ~Sent(MsgSuccess)

\* the install of the framework failed after the environment was created
C8_Witness ==
    /\ LiveRun /\ pc = "raised"
    /\ Len(steps) = 3
    /\ steps[1] = Step("create_virtualenv", TRUE)
    /\ steps[3] = Step("pip_install", FALSE)

(* C9: a failed pip freeze or git init never makes create_project raise:   *)
(* the warning is sent, the run goes on and can always take its next step  *)
(* up to Done, a failed snapshot is still followed by git init when        *)
(* init_git_flag is set, and a failed snapshot leaves requirements.txt as  *)
(* it was when the run started.                                            *)
C9_NonFatal ==
    LiveRun =>
        \A i \in 1..Len(steps) :
            /\ (steps[i].op = "write_requirements" /\ ~steps[i].ok) =>
                  /\ pc \in {"git", "finish", "done"}
                  /\ Sent(MsgWarnFreeze)
                  /\ Exists(fs, RequirementsPath) <=> Exists(RunStart.fs, RequirementsPath)
                  /\ Exists(fs, RequirementsPath)
                       => fs[RequirementsPath] = RunStart.fs[RequirementsPath]
                  /\ (pc \in {"finish", "done"} /\ opts.init_git_flag)
                       => i < Len(steps) /\ steps[i + 1].op = "init_git"
            /\ (steps[i].op = "init_git" /\ ~steps[i].ok) =>
                  /\ pc \in {"finish", "done"}
                  /\ Sent(MsgWarnGit)
            /\ (steps[i].op \in {"write_requirements", "init_git"} /\ ~steps[i].ok) =>
                  /\ Last(hist).result # "raised"
                  /\ pc = "done" => Last(out) = MsgSuccess /\ Last(hist).result = "done"
                  /\ pc # "done" => ENABLED (InitVersionControl \/ Finish)

\* the snapshot and git init both failed, on a destination that had a requirements.txt,
\* and the run is done
C9_Witness ==
    /\ LiveRun /\ pc = "done"
    /\ Len(steps) >= 2
    /\ steps[Len(steps) - 1] = Step("write_requirements", FALSE)
    /\ steps[Len(steps)] = Step("init_git", FALSE)
    /\ Exists(RunStart.fs, RequirementsPath)
    /\ fs[RequirementsPath] = RunStart.fs[RequirementsPath]


----------------------------------------------------------------------------
\* the lines of a settings text that declare STATIC_URL
StaticUrlLines(text) ==
    LET ls == splitlines(text) IN
    {k \in 1..Len(ls) : ls[k] # <<>> /\ ls[k][1] = "STATIC_URL"}

(* C11: after patch_settings on a settings.py without a STATIC_URL          *)
(* declaration the file has exactly one, STATIC_URL = '/static/'; on a     *)
(* settings.py with a STATIC_URL declaration of any prior value, every     *)
(* STATIC_URL declaration of the result is exactly STATIC_URL = '/static/' *)
(* and nothing of the prior value remains on it.                          *)
C11_StaticUrlCanonical ==
    Patched(1) =>
        LET ls == splitlines(fs[SettingsPath]) IN
        /\ \A k \in StaticUrlLines(fs[SettingsPath]) : ls[k] = StaticUrlDecl
        /\ StaticUrlLines(Settings0) = {} => Cardinality(StaticUrlLines(fs[SettingsPath])) = 1


----------------------------------------------------------------------------
(* SpecSanitize: sanitize_templates called repeatedly on a destination     *)
(* whose templates/base.html is put together from a head (the doctype, in  *)
(* lower or upper case, after leading blanks, or none), the directive or   *)
(* not, a stylesheet link in one of its spellings, and a tail.             *)

DoctypeUpper == "<!DOCTYPE html>"

BaseHeads ==
    { <<>>, <<Doctype, NL>>, <<DoctypeUpper, NL>>, <<NL, SP, Doctype, NL>> }

BaseLoads == { <<>>, <<LoadStatic, NL>> }

LinkTo(tag) == <<"<link", SP, HrefOpen>> \o tag \o <<Quote, ">", NL>>

BaseLinks ==
    { <<>>,
      LinkTo(<<"{%", SP, "static", SP, "'css/style.css'", SP, "%}">>),
      LinkTo(<<"{%", "static", SP, "'css/style.css'", "%}">>),
      LinkTo(<<SP, "{%", SP, "static", SP, "'css/style.css'", SP, "%}", SP>>),
      LinkTo(<<"/style.css">>),
      LinkTo(LoadStaticSpelled) }

BaseTails == { <<"</html>", NL>>, <<"<!--", SP, Doctype, SP, "-->", NL>> }

BaseFiles ==
    { h \o l \o k \o t : h \in BaseHeads, l \in BaseLoads, k \in BaseLinks, t \in BaseTails }

InitSanitize ==
    /\ fs \in {WriteText(NoFiles, BaseHtmlPath, t) : t \in BaseFiles} \cup {NoFiles}
    /\ dirs = {<<>>, TemplatesDir}
    /\ apps = <<>>
    /\ opts = NoOpts
    /\ pc = "lib"
    /\ idx = 0
    /\ steps = <<>>
    /\ out = <<>>
    /\ hist = <<Call("init", <<>>, <<>>, FALSE, fs)>>
    /\ env = NoEnv

SanitizeTemplatesCall ==
    /\ pc = "lib"
    /\ Len(hist) <= MaxSanitize
    /\ LET r == sanitize_templates(fs) IN
        /\ fs' = r.fs
        /\ out' = out \o r.out
        /\ steps' = Append(steps, "sanitize_templates")
        /\ hist' = Append(hist, Call("sanitize_templates", BaseHtmlPath, <<>>, FALSE, r.fs))
    /\ UNCHANGED <<dirs, apps, opts, pc, idx, env>>

NextSanitize == SanitizeTemplatesCall

SpecSanitize == InitSanitize /\ [][NextSanitize]_vars

----------------------------------------------------------------------------
\* the base template before the first call, and "n calls were made on an existing one"
Base0 == hist[1].fs[BaseHtmlPath]
Sanitized(n) == pc = "lib" /\ Len(hist) = n + 1 /\ Exists(hist[1].fs, BaseHtmlPath)

\* the lines of a text that hold a document-type declaration, in either case
DoctypeLines(text) ==
    LET ls == splitlines(text) IN
    {k \in 1..Len(ls) : Contains(ls[k], Doctype) \/ Contains(ls[k], DoctypeUpper)}

FirstDoctypeLine(text) == CHOOSE k \in DoctypeLines(text) : \A j \in DoctypeLines(text) : k <= j

(* C12: one call of sanitize_templates on a base.html that contains        *)
(* {% load static %} changes no file, creates no backup and reports "no    *)
(* changes made"; on a base.html without it, the result holds the          *)
(* directive exactly once, on the line right after the document-type       *)
(* declaration when the file has one, and as its very first line otherwise.*)
C12_LoadStaticOnce ==
    Sanitized(1) =>
        LET ls == splitlines(fs[BaseHtmlPath]) IN
        /\ HasLoadStatic(Base0) =>
              /\ fs = hist[1].fs
              /\ Last(out) = "templates/base.html looks good; no changes made"
        /\ ~HasLoadStatic(Base0) =>
              /\ Count(fs[BaseHtmlPath], LoadStatic) = 1
              /\ IF DoctypeLines(Base0) # {}
                 THEN LET k == FirstDoctypeLine(fs[BaseHtmlPath]) IN
                      k < Len(ls) /\ ls[k + 1] = <<LoadStatic>>
                 ELSE ls[1] = <<LoadStatic>>


----------------------------------------------------------------------------
\* the landing and project-level templates
LandingTemplates ==
    {BaseHtmlPath, <<"templates", "home.html">>, <<"templates", "app_index.html">>}
        \cup {<<"templates", a, "index.html">> : a \in AppNames}

(* C13: in a live run of create_project, a landing or project-level        *)
(* template that existed when the run started either keeps its content, or *)
(* its .bak sibling holds that content: asset materialization, in its      *)
(* bundled and in its fallback branch, and routing generation never        *)
(* replace such a file without a backup.                                   *)
C13_TemplatesKept ==
    LiveRun =>
        \A p \in LandingTemplates :
            Exists(RunStart.fs, p) =>
                /\ Exists(fs, p)
                /\ \/ fs[p] = RunStart.fs[p]
                   \/ Exists(fs, BackupOf(p)) /\ fs[BackupOf(p)] = RunStart.fs[p]


----------------------------------------------------------------------------
(* SpecTail: create_project from line 72 on (patch, routing, assets,       *)
(* snapshot, git, success), entered on a destination in which the project  *)
(* package may be missing, be there without its settings.py, or be the one *)
(* startproject made.  The destination is the user's directory, and        *)
(* patch_settings tests for the absence of settings.py (lines 47-49).      *)

TailFlags == [create_venv : {FALSE}, create_templates : BOOLEAN,
              init_git_flag : BOOLEAN, dry_run : BOOLEAN]

TailDestinations ==
    { [fs |-> NoFiles, dirs |-> {<<>>}],
      [fs |-> (ManagePy :> <<"manage.py">>), dirs |-> {<<>>, <<ProjectName>>}],
      [fs |-> StartprojectFiles, dirs |-> {<<>>, <<ProjectName>>}],
      [fs |-> UserFiles,
       dirs |-> UNION {MkDirs({}, Parent(q)) : q \in DOMAIN UserFiles}] }

InitTail ==
    /\ \E dst \in TailDestinations : fs = dst.fs /\ dirs = dst.dirs
    /\ apps \in AppLists
    /\ opts \in TailFlags
    /\ env \in [bundled : BOOLEAN]
    /\ pc = "patch"
    /\ idx = Len(apps) + 1
    /\ steps = <<>>
    /\ out = <<"Destination">>
    /\ hist = <<[op |-> "init", fs |-> fs, dirs |-> dirs, result |-> "init"],
                RunRecord(opts.dry_run, fs, dirs)>>

NextTail ==
    \/ PatchConfiguration
    \/ GenerateRouting
    \/ MaterializeAssets
    \/ SnapshotDependencies
    \/ InitVersionControl
    \/ Finish

SpecTail == InitTail /\ [][NextTail]_vars

----------------------------------------------------------------------------
Performed(op) == \E i \in 1..Len(steps) : steps[i].op = op

(* C14: in a live run that reaches the patch step on a destination without *)
(* <project_name>/settings.py, patch_settings sends its warning and        *)
(* creates or modifies no file, create_project does not raise, and routing *)
(* generation, asset materialization, the snapshot and git init still run, *)
(* up to Done and the success message.                                     *)
C14_MissingSettingsNonFatal ==
    (LiveRun /\ ~Exists(RunStart.fs, SettingsPath)) =>
        /\ pc # "raised"
        /\ ~Exists(fs, SettingsPath)
        /\ pc # "patch" => Performed("patch_settings") /\ Sent(MsgSettingsMissing)
        /\ pc = "urls" => fs = RunStart.fs /\ dirs = RunStart.dirs
        /\ pc = "done" =>
              /\ Last(out) = MsgSuccess
              /\ Performed("write_requirements")
              /\ RoutingWanted(apps) => Performed("create_urls")
              /\ opts.create_templates => Performed("create_template_structure")
              /\ opts.init_git_flag => Performed("init_git")


----------------------------------------------------------------------------
(* run_command(cmd, cwd, cb), in the package (helpers.py) and in the       *)
(* single-file edition (django_generator.py).  proc is what subprocess.run *)
(* gives back: [stdout, stderr, returncode].                               *)

\* one log call per line of a list of lines: log(cb, f"   {line}")
RECURSIVE LogLines(_, _)
LogLines(lines, skipBlank) ==
    IF lines = <<>> THEN <<>>
    ELSE (IF skipBlank /\ strip(Head(lines)) = <<>> THEN <<>>
          ELSE <<<<"   ">> \o Head(lines)>>)
           \o LogLines(Tail(lines), skipBlank)

\* a variant that launches the command again after a non-zero exit status
LaunchesRetry(cmd, proc) == IF proc.returncode # 0 THEN <<cmd, cmd>> ELSE <<cmd>>

\* the processes one invocation starts: the one subprocess.run call
Launches(cmd, proc) == <<cmd>>

\* err.strip() or out.strip()
FailureText(proc) ==
    IF strip(proc.stderr) # <<>> THEN strip(proc.stderr) ELSE strip(proc.stdout)

\* helpers.py: CalledProcessError(returncode, cmd, output=out, stderr=err)
CalledProcessError(cmd, proc) ==
    [type |-> "CalledProcessError", returncode |-> proc.returncode, cmd |-> cmd,
     output |-> proc.stdout, stderr |-> proc.stderr,
     str |-> <<"Command", cmd, "returned non-zero exit status">>]

\* django_generator.py: RuntimeError(err or f"Command {cmd[0]} failed with code ...")
RuntimeError(cmd, proc) ==
    [type |-> "RuntimeError",
     str |-> IF FailureText(proc) # <<>> THEN FailureText(proc)
             ELSE <<"Command", cmd, "failed with code">>]

NoException == [type |-> "none"]

run_command(edition, cmd, proc) ==
    LET exc == IF edition = "package" THEN CalledProcessError(cmd, proc)
               ELSE RuntimeError(cmd, proc)
        lines == IF edition = "package" THEN LogLines(splitlines(proc.stdout), TRUE)
                 ELSE LogLines(splitlines(strip(proc.stdout)), FALSE)
        failed == IF edition = "package" THEN <<<<"Command failed:">> \o FailureText(proc)>>
                  ELSE <<>>
    IN  IF proc.returncode # 0
        THEN [launches |-> Launches(cmd, proc), returned |-> FALSE, value |-> <<>>,
              exc |-> exc,
              log |-> <<<<"run:", cmd>>>> \o lines \o failed
                        \o <<<<"Error running", cmd>> \o exc.str>>]
        ELSE [launches |-> Launches(cmd, proc), returned |-> TRUE,
              value |-> strip(proc.stdout), exc |-> NoException,
              log |-> <<<<"run:", cmd>>>> \o lines]

----------------------------------------------------------------------------
(* SpecCommand: run_command called on a command whose process ends with    *)
(* one of the outputs and exit statuses below.                             *)

Stdouts ==
    { <<>>, <<"Django==5.0", NL>>, <<NL, SP, "Django==5.0", NL, SP, NL>>,
      <<"asgiref==3.8", NL, "Django==5.0">>, <<SP, NL>>,
      <<"Initialized", SP, "empty", SP, "Git", NL, NL, "repository", NL>> }

Stderrs ==
    { <<>>, <<"ERROR:", SP, "no", SP, "network", NL>>, <<SP, NL>>, <<NL, "fatal", SP>> }

ReturnCodes == {0, 1, 2}

Editions == {"package", "single"}

Commands == {"pip freeze", "git init"}

InitCommand ==
    /\ fs = NoFiles
    /\ dirs = {<<>>}
    /\ apps = <<>>
    /\ opts = NoOpts
    /\ pc = "lib"
    /\ idx = 0
    /\ steps = <<>>
    /\ out = <<>>
    /\ \E ed \in Editions, cmd \in Commands, so \in Stdouts, se \in Stderrs, rc \in ReturnCodes :
         hist = <<[op |-> "init", edition |-> ed, cmd |-> cmd,
                   proc |-> [stdout |-> so, stderr |-> se, returncode |-> rc]]>>
    /\ env = NoEnv

RunCommandCall ==
    /\ pc = "lib"
    /\ Len(hist) <= MaxCommands
    /\ LET r == run_command(hist[1].edition, hist[1].cmd, hist[1].proc) IN
        /\ steps' = steps \o r.launches
        /\ out' = out \o r.log
        /\ hist' = Append(hist, [op |-> "run_command", result |-> r])
    /\ UNCHANGED <<fs, dirs, apps, opts, pc, idx, env>>

NextCommand == RunCommandCall

SpecCommand == InitCommand /\ [][NextCommand]_vars

----------------------------------------------------------------------------
\* the calls made so far, and the process outcome they were made on
CommandCalls == {i \in 2..Len(hist) : hist[i].op = "run_command"}
Proc0 == hist[1].proc

\* what a failure carries of the process's output
Carries(exc, proc) ==
    IF exc.type = "CalledProcessError"
    THEN exc.stderr = proc.stderr /\ exc.output = proc.stdout
    ELSE FailureText(proc) # <<>> => exc.str = FailureText(proc)

----------------------------------------------------------------------------
(* C16: patch_settings is idempotent on the whole file: for every starting *)
(* settings.py and module list, the text after two calls is the text after *)
(* one call, token for token, final newline and appended declarations      *)
(* included.                                                               *)
C16_SecondCallChangesNothing ==
    Patched(2) => hist[3].fs[SettingsPath] = hist[2].fs[SettingsPath]


----------------------------------------------------------------------------
(* C17: no step of any create_project run, live or dry, completed or       *)
(* failed, deletes a file: every file under the destination, the .bak      *)
(* files included, is still there after the step.                          *)
C17_NoFileDeleted == [][DOMAIN fs \subseteq DOMAIN fs']_vars

\* a live run that follows a failed one is done, on a destination that held the
\* user's files: they are there, and so is the backup of the base template
C17_Witness ==
    /\ Len(hist) = 3
    /\ hist[2].result = "raised"
    /\ pc = "done" /\ ~opts.dry_run
    /\ DOMAIN UserFiles \subseteq DOMAIN hist[1].fs
    /\ DOMAIN UserFiles \subseteq DOMAIN fs
    /\ Exists(fs, BackupOf(BaseHtmlPath))
    /\ Exists(fs, ManagePy)


----------------------------------------------------------------------------
(* SpecUrls: create_urls called repeatedly, with the same module list, on  *)
(* a destination in which the project-level urls.py, the routing and view  *)
(* files of a module, a backup of them and the module's landing template   *)
(* may each be there already, with the user's or with Django's content.    *)

Opt(p, cs) == {NoFiles} \cup {(p :> c) : c \in cs}

UrlsFiles ==
    { a @@ b @@ c @@ d @@ e :
        a \in Opt(ProjectUrlsPath, {DjangoUrlsText, <<"my routes", NL>>}),
        b \in Opt(<<"blog", "urls.py">>, {<<"my blog routes", NL>>}),
        c \in Opt(<<"blog", "views.py">>, {DjangoViewsText}),
        d \in Opt(<<"blog", "urls.py.bak">>, {<<"older backup", NL>>}),
        e \in Opt(<<"templates", "blog", "index.html">>, {<<"my blog page", NL>>}) }

DirsOf(f) == UNION ({{<<>>}} \cup {MkDirs({}, Parent(q)) : q \in DOMAIN f})

InitUrls ==
    /\ fs \in UrlsFiles
    /\ dirs \in {DirsOf(fs), DirsOf(fs) \cup {<<ProjectName>>}}
    /\ apps \in AppLists
    /\ opts = NoOpts
    /\ pc = "lib"
    /\ idx = 0
    /\ steps = <<>>
    /\ out = <<>>
    /\ hist = <<Call("init", <<>>, <<>>, FALSE, fs)>>
    /\ env = NoEnv

CreateUrlsCall ==
    /\ pc = "lib"
    /\ Len(hist) <= MaxUrlCalls
    /\ LET r == create_urls(fs, dirs, apps) IN
        /\ fs' = r.fs
        /\ dirs' = r.dirs
        /\ out' = out \o r.out
        /\ steps' = Append(steps, Step("create_urls", r.ok))
        /\ hist' = Append(hist, Call("create_urls", ProjectUrlsPath, <<>>, TRUE, r.fs))
    /\ UNCHANGED <<apps, opts, pc, idx, env>>

NextUrls == CreateUrlsCall

SpecUrls == InitUrls /\ [][NextUrls]_vars

----------------------------------------------------------------------------
\* the calls of create_urls that returned: call i - 1 took hist[i - 1].fs to hist[i].fs
UrlsCalls == {i \in 2..Len(hist) : hist[i].op = "create_urls" /\ steps[i - 1].ok}

\* the lines of the urlpatterns list of a routing text: those after the line that
\* opens it, up to the first line that is "]"
RECURSIVE UpToClose(_)
UpToClose(ls) ==
    IF ls = <<>> \/ Head(ls) = <<"]">> THEN <<>> ELSE <<Head(ls)>> \o UpToClose(Tail(ls))

RECURSIVE AfterOpen(_)
AfterOpen(ls) ==
    IF ls = <<>> THEN <<>>
    ELSE IF startswith(Head(ls), "urlpatterns") THEN Tail(ls) ELSE AfterOpen(Tail(ls))

Routes(text) == UpToClose(AfterOpen(splitlines(text)))

(* C18: a call of create_urls that returns has replaced the project-level  *)
(* urls.py, whatever it held, and made no backup of it; the urlpatterns    *)
(* list of the new text is the home route, the admin route, then one       *)
(* include route per entry of the module list, in the order given; the     *)
(* text is a function of the project name and the module list alone.       *)
C18_ProjectUrlsRewritten ==
    \A i \in UrlsCalls :
        LET t == hist[i].fs[ProjectUrlsPath]
            rs == Routes(t)
            bak == BackupOf(ProjectUrlsPath)
        IN  /\ t = ProjectUrlsText(apps)
            /\ \A j \in UrlsCalls : hist[j].fs[ProjectUrlsPath] = t
            /\ ~Exists(hist[i].fs, bak)
            /\ Len(rs) = 2 + Len(apps)
            /\ Contains(rs[1], "home") /\ Contains(rs[1], "''")
            /\ Contains(rs[2], "'admin/'")
            /\ \A k \in 1..Len(apps) :
                  /\ Contains(rs[2 + k], SQ(apps[k] \o "/"))
                  /\ Contains(rs[2 + k], "include(")
                  /\ Contains(rs[2 + k], SQ(apps[k] \o ".urls"))

\* the user's urls.py was replaced by the routes of two modules
C18_Witness ==
    /\ UrlsCalls # {}
    /\ Exists(hist[1].fs, ProjectUrlsPath)
    /\ hist[1].fs[ProjectUrlsPath] = <<"my routes", NL>>
    /\ apps = <<"shop", "blog">>
    /\ fs[ProjectUrlsPath] # hist[1].fs[ProjectUrlsPath]

(* C19: after a call of create_urls that returns, for every module of the  *)
(* list, repeated names included, a <module>/urls.py or <module>/views.py  *)
(* that existed before the call has a .bak sibling holding the content it  *)
(* had before the call, and itself holds the generated text.              *)
C19_BackupHoldsPrevious ==
    \A i \in UrlsCalls :
        \A k \in 1..Len(apps) :
            LET u == <<apps[k], "urls.py">>
                v == <<apps[k], "views.py">>
                before == hist[i - 1].fs
                after == hist[i].fs
            IN  /\ after[u] = AppUrlsText(apps[k])
                /\ after[v] = AppViewsText(apps[k], apps)
                /\ Exists(before, u) =>
                      Exists(after, BackupOf(u)) /\ after[BackupOf(u)] = before[u]
                /\ Exists(before, v) =>
                      Exists(after, BackupOf(v)) /\ after[BackupOf(v)] = before[v]


----------------------------------------------------------------------------
\* the lines strictly inside the list that the INSTALLED_APPS line opens: none when
\* the list is closed on that very line or is never closed
InsideAppsBlock(text) ==
    LET ls == splitlines(text) IN
    IF BlockEnd(ls) = 0 \/ Contains(ls[BlockStart(ls)], "]") THEN {}
    ELSE (BlockStart(ls) + 1)..(BlockEnd(ls) - 1)

\* the number of registration lines of a text that are not inside that list
RegistrationsOutside(text) ==
    LET ls == splitlines(text) IN
    Cardinality({k \in 1..Len(ls) :
                    /\ k \notin InsideAppsBlock(text)
                    /\ \E a \in AppNames : IsRegistrationOf(ls[k], a)})

\* the registration lines a call is to add: one per entry of the list that the
\* text quotes nowhere, in the order of the list
RECURSIVE WantedLines(_, _)
WantedLines(as, text) ==
    IF as = <<>> THEN <<>>
    ELSE (IF Mentions(text, Head(as)) THEN <<>> ELSE <<<<IND, SQ(Head(as)), ",">>>>)
           \o WantedLines(Tail(as), text)

----------------------------------------------------------------------------
\* the calls of sanitize_templates made so far: call i - 1 took hist[i - 1].fs to hist[i].fs
SanitizeCalls == {i \in 2..Len(hist) : hist[i].op = "sanitize_templates"}

(* C21: when a call of sanitize_templates changes base.html, base.html.bak *)
(* holds the content from before that call; the call right after it makes  *)
(* no change, writes no file, and leaves base.html.bak holding the content *)
(* from before the first call.                                             *)
C21_SanitizeIdempotent ==
    \A i \in SanitizeCalls :
        Exists(hist[i - 1].fs, BaseHtmlPath) =>
            /\ hist[i].fs[BaseHtmlPath] # hist[i - 1].fs[BaseHtmlPath] =>
                  /\ Exists(hist[i].fs, BackupOf(BaseHtmlPath))
                  /\ hist[i].fs[BackupOf(BaseHtmlPath)] = hist[i - 1].fs[BaseHtmlPath]
            /\ i > 2 =>
                  /\ hist[i].fs = hist[i - 1].fs
                  /\ hist[2].fs # hist[1].fs =>
                        hist[i].fs[BackupOf(BaseHtmlPath)] = hist[1].fs[BaseHtmlPath]


----------------------------------------------------------------------------
(* The interpreter create_project hands to its commands, and the progress  *)
(* callback.  python_exec is what the caller passed: the path of an        *)
(* interpreter that exists, a path at which nothing exists, or nothing.    *)

PythonExecs == {"existing", "missing", "empty"}

\* create_virtualenv returns the interpreter under the destination's .venv
VenvPython == ".venv/bin/python"

\* the interpreter that runs the generator
SysExecutable == "sys.executable"

\* Path(python_exec) if python_exec and Path(python_exec).exists()
GivenPython(python_exec, otherwise) ==
    IF python_exec = "existing" THEN "python_exec" ELSE otherwise

\* create_project, lines 36-46: the local python_path once they have run
python_path(create_venv, dry_run, python_exec) ==
    LET first == GivenPython(python_exec, "None")
        second == IF create_venv
                  THEN IF dry_run THEN GivenPython(python_exec, SysExecutable)
                                  ELSE VenvPython
                  ELSE first
    IN IF second = "None" THEN SysExecutable ELSE second

\* does an exception raised by the callback leave log: helpers.log catches
\* it, the log of the single-file edition calls cb(msg) unguarded
log(edition, raises) == raises /\ edition = "single"

\* the steps of create_project after the interpreter is chosen, in the
\* order both modes take them
ProgressSteps(as, o) ==
    <<"install_django", "startproject">>
      \o [i \in 1..Len(as) |-> "startapp"]
      \o <<"patch_settings">>
      \o (IF RoutingWanted(as) THEN <<"create_urls">> ELSE <<>>)
      \o (IF o.create_templates THEN <<"create_template_structure">> ELSE <<>>)
      \o <<"write_requirements">>
      \o (IF o.init_git_flag THEN <<"init_git">> ELSE <<>>)

\* the steps that launch the interpreter
UsesPython(op) ==
    op \in {"install_django", "startproject", "startapp", "write_requirements"}

\* the steps that can fail: the ones that launch a program
CanFail(op) == UsesPython(op) \/ op \in {"create_virtualenv", "init_git"}

\* patch_settings sends its only message after it has written the file
LogsLast(op) == op = "patch_settings"

Said(op, python) == [op |-> op, python |-> python]

Ran(op, python, ok) == [op |-> op, python |-> python, ok |-> ok]

----------------------------------------------------------------------------
(* SpecProgress: one run of create_project seen as the messages it sends    *)
(* and the programs it launches, with the interpreter each of them names.  *)
(* The callback may start raising at any message and raises from then on   *)
(* (hist holds the mark), as a form's callback does once its window is     *)
(* gone.  The single-file edition has no dry run.                          *)

ProgressFlags == [create_venv : BOOLEAN, create_templates : BOOLEAN,
                  init_git_flag : BOOLEAN, dry_run : BOOLEAN,
                  python_exec : PythonExecs]

InitProgress ==
    /\ fs = NoFiles
    /\ dirs = {}
    /\ apps \in AppLists
    /\ opts \in ProgressFlags
    /\ env \in [edition : Editions, faulty : BOOLEAN]
    /\ env.edition = "single" => ~opts.dry_run
    /\ pc = "start"
    /\ idx = 0
    /\ steps = <<>>
    /\ out = <<>>
    /\ hist = <<>>

\* what the callback can do at the next message
CallbackOutcomes ==
    IF hist # <<>> THEN {TRUE} ELSE IF env.faulty THEN BOOLEAN ELSE {FALSE}

Broken(raises) == IF raises THEN <<"callback raised">> ELSE hist

Delivered(raises, msg) == IF raises THEN out ELSE Append(out, msg)

Interpreter == python_path(opts.create_venv, opts.dry_run, opts.python_exec)

\* the destination is created and announced
StartProgress ==
    /\ pc = "start"
    /\ dirs' = MkDirs(dirs, <<>>)
    /\ \E raises \in CallbackOutcomes :
        /\ hist' = Broken(raises)
        /\ out' = Delivered(raises, Said("Destination", "none"))
        /\ pc' = IF log(env.edition, raises) THEN "raised" ELSE "select"
    /\ UNCHANGED <<fs, apps, opts, idx, steps, env>>

\* lines 36-46: the interpreter is chosen; a live run creates .venv for it
SelectInterpreter ==
    /\ pc = "select"
    /\ IF ~opts.create_venv
       THEN /\ pc' = "steps"
            /\ UNCHANGED <<steps, out, hist>>
       ELSE \E raises \in CallbackOutcomes :
            /\ hist' = Broken(raises)
            /\ out' = Delivered(raises, Said("create_virtualenv", "none"))
            /\ IF log(env.edition, raises)
               THEN pc' = "raised" /\ UNCHANGED steps
               ELSE IF opts.dry_run
               THEN pc' = "steps" /\ UNCHANGED steps
               ELSE \E ok \in BOOLEAN :
                    /\ steps' = Append(steps, Ran("create_virtualenv", "none", ok))
                    /\ pc' = IF Continues("create_virtualenv", ok) THEN "steps" ELSE "raised"
    /\ idx' = 1
    /\ UNCHANGED <<fs, dirs, apps, opts, env>>

\* install, startproject, startapp, pip freeze: announced in a dry run,
\* launched with python_path in a live one
CommandStep ==
    /\ pc = "steps"
    /\ idx <= Len(ProgressSteps(apps, opts))
    /\ LET op == ProgressSteps(apps, opts)[idx] IN
        /\ UsesPython(op)
        /\ \E raises \in CallbackOutcomes :
            /\ hist' = Broken(raises)
            /\ out' = Delivered(raises, Said(op, Interpreter))
            /\ IF log(env.edition, raises)
               THEN pc' = "raised" /\ UNCHANGED <<steps, idx>>
               ELSE IF opts.dry_run
               THEN pc' = "steps" /\ idx' = idx + 1 /\ UNCHANGED steps
               ELSE \E ok \in BOOLEAN :
                    /\ steps' = Append(steps, Ran(op, Interpreter, ok))
                    /\ idx' = idx + 1
                    /\ pc' = IF Continues(op, ok) THEN "steps" ELSE "raised"
    /\ UNCHANGED <<fs, dirs, apps, opts, env>>

\* patch_settings, create_urls, create_template_structure, init_git
FileStep ==
    /\ pc = "steps"
    /\ idx <= Len(ProgressSteps(apps, opts))
    /\ LET op == ProgressSteps(apps, opts)[idx] IN
        /\ ~UsesPython(op)
        /\ \E raises \in CallbackOutcomes :
            /\ hist' = Broken(raises)
            /\ out' = Delivered(raises, Said(op, "none"))
            /\ IF log(env.edition, raises)
               THEN /\ pc' = "raised"
                    /\ steps' = IF LogsLast(op) THEN Append(steps, Ran(op, "none", TRUE))
                                               ELSE steps
                    /\ UNCHANGED idx
               ELSE IF opts.dry_run
               THEN pc' = "steps" /\ idx' = idx + 1 /\ UNCHANGED steps
               ELSE \E ok \in (IF CanFail(op) THEN BOOLEAN ELSE {TRUE}) :
                    /\ steps' = Append(steps, Ran(op, "none", ok))
                    /\ idx' = idx + 1
                    /\ pc' = IF Continues(op, ok) THEN "steps" ELSE "raised"
    /\ UNCHANGED <<fs, dirs, apps, opts, env>>

\* the closing message
FinishProgress ==
    /\ pc = "steps"
    /\ idx > Len(ProgressSteps(apps, opts))
    /\ \E raises \in CallbackOutcomes :
        /\ hist' = Broken(raises)
        /\ out' = Delivered(raises, Said("success", "none"))
        /\ pc' = IF log(env.edition, raises) THEN "raised" ELSE "done"
    /\ UNCHANGED <<fs, dirs, apps, opts, idx, steps, env>>

NextProgress ==
    \/ StartProgress
    \/ SelectInterpreter
    \/ CommandStep
    \/ FileStep
    \/ FinishProgress

SpecProgress == InitProgress /\ [][NextProgress]_vars

----------------------------------------------------------------------------
(* C22: every message of a dry run that names an interpreter names the one *)
(* a live run with the same create_venv and python_exec launches.          *)
C22_DryNamesLiveInterpreter ==
    opts.dry_run =>
        \A i \in 1..Len(out) :
            UsesPython(out[i].op) =>
                out[i].python = python_path(opts.create_venv, FALSE, opts.python_exec)


----------------------------------------------------------------------------
\* the steps a live run performs when every program it launches succeeds
ProgressOps ==
    (IF opts.create_venv THEN <<"create_virtualenv">> ELSE <<>>)
        \o ProgressSteps(apps, opts)

(* C24: in a run during which the callback raised, the run is abandoned    *)
(* only because a program whose failure is fatal failed, and a live run    *)
(* that completes has performed every step, in order.                      *)
C24_CallbackNeverAborts ==
    hist # <<>> =>
        /\ pc = "raised" =>
              /\ steps # <<>>
              /\ ~Last(steps).ok
              /\ ~Swallowed(Last(steps).op)
        /\ (pc = "done" /\ ~opts.dry_run) => OpsOf(steps) = ProgressOps


----------------------------------------------------------------------------
(* SpecGui: the desktop form.  Every click on "Create Project" runs        *)
(* _on_create on the event loop; a confirmed click starts a worker thread  *)
(* that runs _create_thread.  The threads are scheduled freely, so one     *)
(* action of a worker is one step of its create_project.  Here pc holds    *)
(* the workers started so far, idx counts the clicks, out is status_var,   *)
(* steps lists the writes in the order they happen, and a file's content   *)
(* is the worker that wrote it last.                                       *)

GuiDests == {"projects/a", "projects/b"}

GuiNames == {"", ProjectName}

\* the steps of create_project that write under the destination whatever
\* the options are
WorkerWrites == <<"mkdir", "startproject", "patch_settings", "write_requirements">>

GuiFile(dest, op) ==
    <<dest, CASE op = "startproject" -> "manage.py"
              [] op = "patch_settings" -> "settings.py"
              [] op = "write_requirements" -> "requirements.txt"
              [] OTHER -> ".gitignore">>

Worker(dest) == [dest |-> dest, at |-> 1, status |-> "running"]

Running == {t \in 1..Len(pc) : pc[t].status = "running"}

InitGui ==
    /\ fs = NoFiles
    /\ dirs = {}
    /\ apps = <<>>
    /\ opts = NoOpts
    /\ env = NoEnv
    /\ pc = <<>>
    /\ idx = 0
    /\ steps = <<>>
    /\ out = "Ready"
    /\ hist = <<>>

\* _on_create: nothing in it looks at the workers already started, and the
\* button stays enabled
OnCreate ==
    /\ idx < MaxClicks
    /\ idx' = idx + 1
    /\ \E dest \in GuiDests, name \in GuiNames, confirm \in BOOLEAN :
        IF name = ""
        THEN UNCHANGED <<pc, out>>
        ELSE IF ~confirm
        THEN out' = "Cancelled." /\ UNCHANGED pc
        ELSE out' = "Running..." /\ pc' = Append(pc, Worker(dest))
    /\ UNCHANGED <<fs, dirs, apps, opts, steps, hist, env>>

\* _create_thread, the call of create_project: its next step.  startproject
\* refuses a destination that holds manage.py, and any program may fail;
\* the exception ends the worker in the except branch.
WorkerStep(t) ==
    /\ pc[t].status = "running"
    /\ pc[t].at <= Len(WorkerWrites)
    /\ LET op == WorkerWrites[pc[t].at]
           dest == pc[t].dest
       IN
        /\ steps' = Append(steps, [thread |-> t, dest |-> dest, op |-> op])
        /\ IF op = "mkdir"
           THEN /\ dirs' = dirs \cup {<<dest>>}
                /\ pc' = [pc EXCEPT ![t].at = @ + 1]
                /\ UNCHANGED <<fs, out>>
           ELSE \E ok \in (IF op # "startproject" THEN {TRUE}
                           ELSE IF Exists(fs, GuiFile(dest, op)) THEN {FALSE}
                           ELSE BOOLEAN) :
                /\ dirs' = dirs
                /\ IF ok
                   THEN /\ fs' = WriteText(fs, GuiFile(dest, op), <<t>>)
                        /\ pc' = [pc EXCEPT ![t].at = @ + 1]
                        /\ out' = out
                   ELSE /\ fs' = fs
                        /\ pc' = [pc EXCEPT ![t].status = "error"]
                        /\ out' = "Error."
    /\ UNCHANGED <<apps, opts, idx, hist, env>>

\* _create_thread after create_project returned: the optional .gitignore,
\* then the status line
WorkerDone(t) ==
    /\ pc[t].status = "running"
    /\ pc[t].at > Len(WorkerWrites)
    /\ \E gitignore \in BOOLEAN :
        IF gitignore
        THEN /\ fs' = WriteText(fs, GuiFile(pc[t].dest, "create_gitignore"), <<t>>)
             /\ steps' = Append(steps, [thread |-> t, dest |-> pc[t].dest,
                                        op |-> "create_gitignore"])
        ELSE UNCHANGED <<fs, steps>>
    /\ pc' = [pc EXCEPT ![t].status = "done"]
    /\ out' = "Done."
    /\ UNCHANGED <<dirs, apps, opts, idx, hist, env>>

NextGui ==
    \/ OnCreate
    \/ \E t \in 1..Len(pc) : WorkerStep(t)
    \/ \E t \in 1..Len(pc) : WorkerDone(t)

SpecGui == InitGui /\ [][NextGui]_vars

\* the writes of one run are not separated by a write of another run
Uninterleaved(st) ==
    \A i, j, k \in 1..Len(st) :
        (i < j /\ j < k /\ st[i].thread = st[k].thread) => st[j].thread = st[i].thread

(* C23: at most one worker runs create_project at any time, and the writes *)
(* of the runs are never interleaved.                                      *)
C23_AtMostOneRun ==
    /\ Cardinality(Running) <= 1
    /\ Uninterleaved(steps)


============================================================================
